---- MODULE Spec2Model ----
(***************************************************************************)
(* Crossify token factory (Solana side): the bonding-curve price           *)
(* calculation, the Wormhole message codec and the inbound message         *)
(* dispatcher, modelled from                                               *)
(*   src/solana/token-factory/programs/token-factory/src/lib.rs            *)
(*   src/solana/wormhole.rs                                                *)
(*   src/solana/cross_chain.rs                                             *)
(*                                                                         *)
(* Numbers.  TLC's integers are 32 bits wide, the program's are u64/i64.   *)
(* A u64 is therefore held as a natural number written in base 256, least  *)
(* significant digit first, without leading (most significant) zero        *)
(* digits: 0 is <<>>, 550 is <<38, 2>>, 2^64-1 is eight digits 255.  The   *)
(* arithmetic below is exact arithmetic on such numerals; the saturating   *)
(* operations of the program clamp its results at U64_MAX.  u8, u16 and    *)
(* the small quantities derived from them are ordinary integers.           *)
(***************************************************************************)
EXTENDS Integers, Sequences, FiniteSets, TLC

Byte == 0..255

\* A numeral: base-256 digits, least significant first, no leading zero digit.
IsNat(d) ==
    /\ d \in Seq(Byte)
    /\ (Len(d) > 0 => d[Len(d)] # 0)

RECURSIVE Norm(_)
\* Drop the most significant zero digits.
Norm(d) ==
    IF d = <<>> THEN <<>>
    ELSE IF d[Len(d)] = 0 THEN Norm(SubSeq(d, 1, Len(d) - 1))
    ELSE d

RECURSIVE N(_)
\* The numeral of a (32-bit) integer literal of the source.
N(i) ==
    IF i = 0 THEN <<>> ELSE <<i % 256>> \o N(i \div 256)

RECURSIVE ToInt(_)
\* The integer a numeral of at most three digits denotes.
ToInt(d) ==
    IF d = <<>> THEN 0 ELSE d[1] + 256 * ToInt(Tail(d))

Digit(d, i) ==
    IF i <= Len(d) THEN d[i] ELSE 0

RECURSIVE AddFrom(_, _, _, _)
\* Digits i.. of a + b with carry c coming in.
AddFrom(a, b, i, c) ==
    IF i > Len(a) /\ i > Len(b)
    THEN (IF c = 0 THEN <<>> ELSE <<c>>)
    ELSE LET s == Digit(a, i) + Digit(b, i) + c
         IN  <<s % 256>> \o AddFrom(a, b, i + 1, s \div 256)

\* a + b, exact.
NatAdd(a, b) ==
    Norm(AddFrom(a, b, 1, 0))

RECURSIVE MulDigitFrom(_, _, _, _)
\* Digits i.. of a * k (k one digit) with carry c coming in.
MulDigitFrom(a, k, i, c) ==
    IF i > Len(a)
    THEN (IF c = 0 THEN <<>> ELSE <<c>>)
    ELSE LET p == a[i] * k + c
         IN  <<p % 256>> \o MulDigitFrom(a, k, i + 1, p \div 256)

RECURSIVE MulFrom(_, _, _)
\* a * (digits j.. of b), exact.
MulFrom(a, b, j) ==
    IF j > Len(b) THEN <<>>
    ELSE NatAdd(Norm(MulDigitFrom(a, b[j], 1, 0)),
                Norm(<<0>> \o MulFrom(a, b, j + 1)))

\* a * b, exact.
NatMul(a, b) ==
    IF a = <<>> \/ b = <<>> THEN <<>> ELSE Norm(MulFrom(a, b, 1))

RECURSIVE DivFrom(_, _, _, _)
\* Long division by the small integer k, from digit i down, remainder r coming
\* in; the quotient's digits, least significant first.
DivFrom(a, k, i, r) ==
    IF i = 0 THEN <<>>
    ELSE LET cur == r * 256 + a[i]
         IN  DivFrom(a, k, i - 1, cur % k) \o <<cur \div k>>

\* a / k rounded down, k a small positive integer (a literal of the source).
NatDiv(a, k) ==
    Norm(DivFrom(a, k, Len(a), 0))

RECURSIVE GtFrom(_, _, _)
GtFrom(a, b, i) ==
    IF i = 0 THEN FALSE
    ELSE IF a[i] # b[i] THEN a[i] > b[i]
    ELSE GtFrom(a, b, i - 1)

\* a > b.
NatGt(a, b) ==
    IF Len(a) # Len(b) THEN Len(a) > Len(b) ELSE GtFrom(a, b, Len(a))

\* u64::MAX = 2^64 - 1.
U64_MAX == [i \in 1..8 |-> 255]

IsU64(d) ==
    IsNat(d) /\ Len(d) <= 8

(***************************************************************************)
(* u64 arithmetic of the price helpers (lib.rs, lines 211-233)             *)
(***************************************************************************)

\* u64::saturating_add: the sum, or u64::MAX when it does not fit.
saturating_add(a, b) ==
    LET s == NatAdd(a, b)
    IN  IF Len(s) > 8 THEN U64_MAX ELSE s

\* A faulty variant of saturating_mul: u64::wrapping_mul, the low 64 bits of the product.
wrapping_mul(a, b) ==
    LET p == NatMul(a, b)
    IN  Norm([i \in 1..8 |-> Digit(p, i)])

\* u64::saturating_mul: the product, or u64::MAX when it does not fit.
saturating_mul(a, b) ==
    LET p == NatMul(a, b)
    IN  IF Len(p) > 8 THEN U64_MAX ELSE p

\* 1000_u64.saturating_sub(reserve_ratio as u64); both operands are small.
saturating_sub(a, b) ==
    IF b >= a THEN 0 ELSE a - b

RECURSIVE saturating_pow(_, _)
\* u64::saturating_pow(exp: u32): base^exp, or u64::MAX when it does not fit.
saturating_pow(base, exp) ==
    IF exp = 0 THEN N(1)
    ELSE saturating_mul(base, saturating_pow(base, exp - 1))

\* fn calculate_linear_price(supply, amount, base_price, slope) -> u64
calculate_linear_price(supply, amount, base_price, slope) ==
    LET current_price == saturating_add(base_price, saturating_mul(slope, supply))
    IN  saturating_mul(current_price, amount)

\* A faulty variant of calculate_exponential_price: the slope is not scaled by 10000.
calculate_exponential_price_unscaled(supply, amount, base_price, slope) ==
    LET exponent == saturating_mul(slope, supply)
        current_price ==
            saturating_add(base_price,
                           NatDiv(saturating_mul(base_price, exponent), 100))
    IN  saturating_mul(current_price, amount)

\* fn calculate_exponential_price(supply, amount, base_price, slope) -> u64
calculate_exponential_price(supply, amount, base_price, slope) ==
    LET exponent == NatDiv(saturating_mul(slope, supply), 10000)
        current_price ==
            saturating_add(base_price,
                           NatDiv(saturating_mul(base_price, exponent), 100))
    IN  saturating_mul(current_price, amount)

\* A faulty variant of calculate_bancor_price: the ratio factor is rounded to
\* the nearest integer instead of down.
calculate_bancor_price_rounded(supply, amount, base_price, reserve_ratio) ==
    LET ratio_factor == (saturating_sub(1000, reserve_ratio) + 500) \div 1000
        supply_factor ==
            IF NatGt(supply, N(1000)) THEN NatDiv(supply, 1000) ELSE N(1)
        current_price ==
            saturating_mul(base_price, saturating_pow(supply_factor, ratio_factor))
    IN  saturating_mul(current_price, amount)

\* fn calculate_bancor_price(supply, amount, base_price, reserve_ratio: u16) -> u64
calculate_bancor_price(supply, amount, base_price, reserve_ratio) ==
    LET ratio_factor == saturating_sub(1000, reserve_ratio) \div 1000
        supply_factor ==
            IF NatGt(supply, N(1000)) THEN NatDiv(supply, 1000) ELSE N(1)
        current_price ==
            saturating_mul(base_price, saturating_pow(supply_factor, ratio_factor))
    IN  saturating_mul(current_price, amount)

(***************************************************************************)
(* Results and accounts                                                    *)
(***************************************************************************)

\* Result<T>: Ok(value) or Err(error); errors are named as in the source
\* (TokenFactoryError::X is "X", ProgramError::InvalidInstructionData is
\* "InvalidInstructionData").
Ok(v) == [ok |-> TRUE, err |-> "", value |-> v]

Err(e) == [ok |-> FALSE, err |-> e, value |-> <<>>]

\* The unit value of Ok(()).
Unit == <<>>

\* Pubkey::default()
DefaultPubkey == "11111111111111111111111111111111"

\* impl Default for CrossChainInfo (derived)
CrossChainInfo_default ==
    [wormhole_emitter |-> DefaultPubkey, supported_chains |-> <<>>]

\* impl Default for BondingCurve (derived)
BondingCurve_default ==
    [enabled |-> FALSE, curve_type |-> 0, base_price |-> N(0), slope |-> N(0),
     reserve_ratio |-> 0]

\* Vec::contains
Contains(v, x) == \E i \in 1..Len(v) : v[i] = x

VARIABLES
    token_factory,  \* the TokenFactory accounts, by address: [initialized, authority, token_count]
    tokens,         \* the TokenData accounts, in creation order
    call,           \* the instruction or function last invoked, with its arguments
    ret,            \* what it returned
    events,         \* the events it emitted (emit!), in order
    wire,           \* the message bytes last produced by a serialize_* function
    sent            \* the payload those bytes were produced from

vars == <<token_factory, tokens, call, ret, events, wire, sent>>

(***************************************************************************)
(* The instructions of the token_factory program (lib.rs, lines 11-208).   *)
(* Each X_result gives what instruction X returns and emits on a given     *)
(* account; the action X applies it to the state.  An instruction that     *)
(* returns Err leaves every account as it was (the runtime discards the    *)
(* writes of a failed instruction).                                        *)
(***************************************************************************)

\* The outcome of a call: its return value and the events it emitted.
Outcome(r, e) == [ret |-> r, events |-> e]

\* A TokenFactory account that initialize has not created yet.
Uninitialized ==
    [initialized |-> FALSE, authority |-> DefaultPubkey, token_count |-> 0]

\* pub fn initialize: the account written by lines 12-14.
initialize_account(authority) ==
    [initialized |-> TRUE, authority |-> authority, token_count |-> 0]

\* A faulty variant of create_token_account: the bonding curve starts enabled.
create_token_account_curve_enabled(token_count, mint, authority, name, symbol, decimals, metadata_uri, initial_supply) ==
    [mint |-> mint,
     name |-> name,
     symbol |-> symbol,
     decimals |-> decimals,
     metadata_uri |-> metadata_uri,
     authority |-> authority,
     initial_supply |-> initial_supply,
     cross_chain_enabled |-> FALSE,
     cross_chain_info |-> CrossChainInfo_default,
     token_id |-> token_count,
     bonding_curve |-> [BondingCurve_default EXCEPT !.enabled = TRUE]]

\* pub fn create_token: the TokenData account written by lines 33-43.
create_token_account(token_count, mint, authority, name, symbol, decimals, metadata_uri, initial_supply) ==
    [mint |-> mint,
     name |-> name,
     symbol |-> symbol,
     decimals |-> decimals,
     metadata_uri |-> metadata_uri,
     authority |-> authority,
     initial_supply |-> initial_supply,
     cross_chain_enabled |-> FALSE,
     cross_chain_info |-> CrossChainInfo_default,
     token_id |-> token_count,
     bonding_curve |-> BondingCurve_default]

\* pub fn create_token: the event of lines 61-68.
TokenCreatedEvent(token_data) ==
    [type |-> "TokenCreatedEvent",
     token_id |-> token_data.token_id,
     mint |-> token_data.mint,
     name |-> token_data.name,
     symbol |-> token_data.symbol,
     decimals |-> token_data.decimals,
     initial_supply |-> token_data.initial_supply]

\* A faulty variant of enable_cross_chain_result: the signer is not compared
\* with the token's authority.
enable_cross_chain_result_any_signer(token_data, authority, wormhole_emitter, chain_ids) ==
    Outcome(Ok(Unit),
            <<[type |-> "CrossChainEnabledEvent",
               token_id |-> token_data.token_id,
               mint |-> token_data.mint,
               wormhole_emitter |-> wormhole_emitter,
               supported_chains |-> chain_ids]>>)

\* pub fn enable_cross_chain: return value and events.
enable_cross_chain_result(token_data, authority, wormhole_emitter, chain_ids) ==
    IF token_data.authority # authority
    THEN Outcome(Err("InvalidAuthority"), <<>>)
    ELSE Outcome(Ok(Unit),
                 <<[type |-> "CrossChainEnabledEvent",
                    token_id |-> token_data.token_id,
                    mint |-> token_data.mint,
                    wormhole_emitter |-> wormhole_emitter,
                    supported_chains |-> chain_ids]>>)

\* pub fn enable_cross_chain: the account after lines 85-87.
enable_cross_chain_account(token_data, wormhole_emitter, chain_ids) ==
    [token_data EXCEPT
        !.cross_chain_enabled = TRUE,
        !.cross_chain_info = [wormhole_emitter |-> wormhole_emitter,
                              supported_chains |-> chain_ids]]

\* A faulty variant of configure_bonding_curve_result: the reserve ratio is
\* not checked.
configure_bonding_curve_result_no_ratio_check(token_data, authority, curve_type, base_price, slope, reserve_ratio) ==
    IF token_data.authority # authority
    THEN Outcome(Err("InvalidAuthority"), <<>>)
    ELSE IF ~(curve_type <= 2)
    THEN Outcome(Err("InvalidCurveType"), <<>>)
    ELSE Outcome(Ok(Unit),
                 <<[type |-> "BondingCurveConfiguredEvent",
                    token_id |-> token_data.token_id,
                    mint |-> token_data.mint,
                    curve_type |-> curve_type,
                    base_price |-> base_price,
                    slope |-> slope,
                    reserve_ratio |-> reserve_ratio]>>)

\* A faulty variant of configure_bonding_curve_result: the reserve ratio is
\* checked before the curve type.
configure_bonding_curve_result_ratio_first(token_data, authority, curve_type, base_price, slope, reserve_ratio) ==
    IF token_data.authority # authority
    THEN Outcome(Err("InvalidAuthority"), <<>>)
    ELSE IF ~(reserve_ratio <= 1000)
    THEN Outcome(Err("InvalidReserveRatio"), <<>>)
    ELSE IF ~(curve_type <= 2)
    THEN Outcome(Err("InvalidCurveType"), <<>>)
    ELSE Outcome(Ok(Unit),
                 <<[type |-> "BondingCurveConfiguredEvent",
                    token_id |-> token_data.token_id,
                    mint |-> token_data.mint,
                    curve_type |-> curve_type,
                    base_price |-> base_price,
                    slope |-> slope,
                    reserve_ratio |-> reserve_ratio]>>)

\* pub fn configure_bonding_curve: return value and events.
configure_bonding_curve_result(token_data, authority, curve_type, base_price, slope, reserve_ratio) ==
    IF token_data.authority # authority
    THEN Outcome(Err("InvalidAuthority"), <<>>)
    ELSE IF ~(curve_type <= 2)
    THEN Outcome(Err("InvalidCurveType"), <<>>)
    ELSE IF ~(reserve_ratio <= 1000)
    THEN Outcome(Err("InvalidReserveRatio"), <<>>)
    ELSE Outcome(Ok(Unit),
                 <<[type |-> "BondingCurveConfiguredEvent",
                    token_id |-> token_data.token_id,
                    mint |-> token_data.mint,
                    curve_type |-> curve_type,
                    base_price |-> base_price,
                    slope |-> slope,
                    reserve_ratio |-> reserve_ratio]>>)

\* pub fn configure_bonding_curve: the account after lines 117-121.
configure_bonding_curve_account(token_data, curve_type, base_price, slope, reserve_ratio) ==
    [token_data EXCEPT
        !.bonding_curve = [enabled |-> TRUE,
                           curve_type |-> curve_type,
                           base_price |-> base_price,
                           slope |-> slope,
                           reserve_ratio |-> reserve_ratio]]

\* A faulty variant of calculate_price_result: the curve type is matched before the
\* enabled flag is looked at.
calculate_price_result_type_first(token_data, supply, amount) ==
    LET curve == token_data.bonding_curve
        priced(price) ==
            Outcome(Ok(price),
                    <<[type |-> "PriceCalculatedEvent",
                       token_id |-> token_data.token_id,
                       mint |-> token_data.mint,
                       supply |-> supply,
                       amount |-> amount,
                       price |-> price]>>)
    IN  IF curve.curve_type > 2
        THEN Outcome(Err("InvalidCurveType"), <<>>)
        ELSE IF ~curve.enabled
        THEN Outcome(Err("BondingCurveNotEnabled"), <<>>)
        ELSE IF curve.curve_type = 0
        THEN priced(calculate_linear_price(supply, amount, curve.base_price,
                                           curve.slope))
        ELSE IF curve.curve_type = 1
        THEN priced(calculate_exponential_price(supply, amount,
                                                curve.base_price, curve.slope))
        ELSE priced(calculate_bancor_price(supply, amount, curve.base_price,
                                           curve.reserve_ratio))

\* pub fn calculate_price: return value and events.
calculate_price_result(token_data, supply, amount) ==
    LET curve == token_data.bonding_curve
        priced(price) ==
            Outcome(Ok(price),
                    <<[type |-> "PriceCalculatedEvent",
                       token_id |-> token_data.token_id,
                       mint |-> token_data.mint,
                       supply |-> supply,
                       amount |-> amount,
                       price |-> price]>>)
    IN  IF ~curve.enabled
        THEN Outcome(Err("BondingCurveNotEnabled"), <<>>)
        ELSE IF curve.curve_type = 0
        THEN priced(calculate_linear_price(supply, amount, curve.base_price,
                                           curve.slope))
        ELSE IF curve.curve_type = 1
        THEN priced(calculate_exponential_price(supply, amount,
                                                curve.base_price, curve.slope))
        ELSE IF curve.curve_type = 2
        THEN priced(calculate_bancor_price(supply, amount, curve.base_price,
                                           curve.reserve_ratio))
        ELSE Outcome(Err("InvalidCurveType"), <<>>)

\* A faulty variant of send_cross_chain_message_result: the target chain is not checked.
send_cross_chain_message_result_any_chain(token_data, authority, target_chain, payload) ==
    IF token_data.authority # authority
    THEN Outcome(Err("InvalidAuthority"), <<>>)
    ELSE IF ~token_data.cross_chain_enabled
    THEN Outcome(Err("CrossChainNotEnabled"), <<>>)
    ELSE Outcome(Ok(Unit),
                 <<[type |-> "CrossChainMessageSentEvent",
                    token_id |-> token_data.token_id,
                    mint |-> token_data.mint,
                    target_chain |-> target_chain,
                    payload |-> payload]>>)

\* A faulty variant of send_cross_chain_message_result: cross_chain_enabled is
\* checked before the authority.
send_cross_chain_message_result_enabled_first(token_data, authority, target_chain, payload) ==
    IF ~token_data.cross_chain_enabled
    THEN Outcome(Err("CrossChainNotEnabled"), <<>>)
    ELSE IF token_data.authority # authority
    THEN Outcome(Err("InvalidAuthority"), <<>>)
    ELSE IF ~Contains(token_data.cross_chain_info.supported_chains, target_chain)
    THEN Outcome(Err("UnsupportedChain"), <<>>)
    ELSE Outcome(Ok(Unit),
                 <<[type |-> "CrossChainMessageSentEvent",
                    token_id |-> token_data.token_id,
                    mint |-> token_data.mint,
                    target_chain |-> target_chain,
                    payload |-> payload]>>)

\* pub fn send_cross_chain_message: return value and events.
send_cross_chain_message_result(token_data, authority, target_chain, payload) ==
    IF token_data.authority # authority
    THEN Outcome(Err("InvalidAuthority"), <<>>)
    ELSE IF ~token_data.cross_chain_enabled
    THEN Outcome(Err("CrossChainNotEnabled"), <<>>)
    ELSE IF ~Contains(token_data.cross_chain_info.supported_chains, target_chain)
    THEN Outcome(Err("UnsupportedChain"), <<>>)
    ELSE Outcome(Ok(Unit),
                 <<[type |-> "CrossChainMessageSentEvent",
                    token_id |-> token_data.token_id,
                    mint |-> token_data.mint,
                    target_chain |-> target_chain,
                    payload |-> payload]>>)

(***************************************************************************)
(* The Wormhole message codec (wormhole.rs).  The payload structs derive   *)
(* AnchorSerialize/AnchorDeserialize (Borsh): fields in declaration order, *)
(* integers little-endian at their fixed width, a String as the u32 count  *)
(* of its UTF-8 bytes followed by those bytes.  A String is held as its    *)
(* UTF-8 bytes, an i64 as sign and magnitude: [neg, mag].                  *)
(***************************************************************************)

\* Message types (wormhole.rs, mod wormhole).
MSG_TYPE_TOKEN_CREATION == 1

MSG_TYPE_PRICE_UPDATE == 2

MSG_TYPE_LIQUIDITY_UPDATE == 3

u8_to_le_bytes(v) == <<v>>

u16_to_le_bytes(v) == <<v % 256, v \div 256>>

\* A faulty variant of u64_to_le_bytes: u64::to_be_bytes, most significant first.
u64_to_be_bytes(d) == [i \in 1..8 |-> Digit(d, 9 - i)]

\* u64::to_le_bytes: the eight digits, least significant first.
u64_to_le_bytes(d) == [i \in 1..8 |-> Digit(d, i)]

\* The two's complement of an eight-byte pattern: invert, add one, keep 64 bits.
TwosComplement(bytes) ==
    LET inverted == [i \in 1..8 |-> 255 - bytes[i]]
        sum == NatAdd(Norm(inverted), N(1))
    IN  [i \in 1..8 |-> Digit(sum, i)]

\* i64::to_le_bytes
i64_to_le_bytes(x) ==
    IF x.neg THEN TwosComplement(u64_to_le_bytes(x.mag))
    ELSE u64_to_le_bytes(x.mag)

\* Borsh: String, the length as u32 and the bytes.
String_serialize(str) ==
    [i \in 1..4 |-> Digit(N(Len(str)), i)] \o str

\* TokenCreationPayload::try_to_vec
TokenCreationPayload_serialize(p) ==
    u64_to_le_bytes(p.token_id) \o String_serialize(p.name)
        \o String_serialize(p.symbol) \o u8_to_le_bytes(p.decimals)
        \o String_serialize(p.metadata_uri) \o u64_to_le_bytes(p.initial_supply)
        \o u8_to_le_bytes(p.curve_type) \o u64_to_le_bytes(p.base_price)
        \o u64_to_le_bytes(p.slope) \o u16_to_le_bytes(p.reserve_ratio)

\* PriceUpdatePayload::try_to_vec
PriceUpdatePayload_serialize(p) ==
    u64_to_le_bytes(p.token_id) \o u64_to_le_bytes(p.current_price)
        \o u64_to_le_bytes(p.current_supply) \o i64_to_le_bytes(p.timestamp)

\* LiquidityUpdatePayload::try_to_vec
LiquidityUpdatePayload_serialize(p) ==
    u64_to_le_bytes(p.token_id) \o u64_to_le_bytes(p.liquidity_added)
        \o u64_to_le_bytes(p.liquidity_removed)
        \o u64_to_le_bytes(p.current_liquidity) \o i64_to_le_bytes(p.timestamp)

\* pub fn serialize_token_creation_message
serialize_token_creation_message(payload) ==
    <<MSG_TYPE_TOKEN_CREATION>> \o TokenCreationPayload_serialize(payload)

\* pub fn serialize_price_update_message
serialize_price_update_message(payload) ==
    <<MSG_TYPE_PRICE_UPDATE>> \o PriceUpdatePayload_serialize(payload)

\* pub fn serialize_liquidity_update_message
serialize_liquidity_update_message(payload) ==
    <<MSG_TYPE_LIQUIDITY_UPDATE>> \o LiquidityUpdatePayload_serialize(payload)

\* pub fn deserialize_wormhole_message
deserialize_wormhole_message(data) ==
    IF data = <<>> THEN Err("InvalidInstructionData")
    ELSE Ok(<<data[1], Tail(data)>>)

\* A Borsh reader's step: the value read and the bytes left, or failure.
Read(v, rest) == [ok |-> TRUE, v |-> v, rest |-> rest]

ReadFailed == [ok |-> FALSE, v |-> <<>>, rest |-> <<>>]

Drop(buf, n) == SubSeq(buf, n + 1, Len(buf))

read_u8(buf) ==
    IF Len(buf) < 1 THEN ReadFailed ELSE Read(buf[1], Drop(buf, 1))

read_u16(buf) ==
    IF Len(buf) < 2 THEN ReadFailed
    ELSE Read(buf[1] + 256 * buf[2], Drop(buf, 2))

\* u64::from_le_bytes
read_u64(buf) ==
    IF Len(buf) < 8 THEN ReadFailed
    ELSE Read(Norm(SubSeq(buf, 1, 8)), Drop(buf, 8))

\* i64::from_le_bytes: the top bit is the sign.
read_i64(buf) ==
    IF Len(buf) < 8 THEN ReadFailed
    ELSE LET bytes == SubSeq(buf, 1, 8)
         IN  IF bytes[8] >= 128
             THEN Read([neg |-> TRUE, mag |-> Norm(TwosComplement(bytes))],
                       Drop(buf, 8))
             ELSE Read([neg |-> FALSE, mag |-> Norm(bytes)], Drop(buf, 8))

Cont(b) == b \in 128..191

RECURSIVE Utf8Valid(_)
\* String::from_utf8 accepts exactly the well-formed UTF-8 byte sequences.
Utf8Valid(b) ==
    IF b = <<>> THEN TRUE
    ELSE LET n == Len(b)
             b1 == b[1]
         IN  IF b1 <= 127 THEN Utf8Valid(Drop(b, 1))
             ELSE IF b1 \in 194..223
             THEN n >= 2 /\ Cont(b[2]) /\ Utf8Valid(Drop(b, 2))
             ELSE IF b1 \in 224..239
             THEN /\ n >= 3
                  /\ b[2] \in (IF b1 = 224 THEN 160..191
                               ELSE IF b1 = 237 THEN 128..159 ELSE 128..191)
                  /\ Cont(b[3])
                  /\ Utf8Valid(Drop(b, 3))
             ELSE IF b1 \in 240..244
             THEN /\ n >= 4
                  /\ b[2] \in (IF b1 = 240 THEN 144..191
                               ELSE IF b1 = 244 THEN 128..143 ELSE 128..191)
                  /\ Cont(b[3])
                  /\ Cont(b[4])
                  /\ Utf8Valid(Drop(b, 4))
             ELSE FALSE

\* Borsh: String, the u32 length, that many bytes, which must be UTF-8.
read_string(buf) ==
    IF Len(buf) < 4 THEN ReadFailed
    ELSE LET len == Norm(SubSeq(buf, 1, 4))
             rest == Drop(buf, 4)
         IN  IF NatGt(len, N(Len(rest))) THEN ReadFailed
             ELSE LET str == SubSeq(rest, 1, ToInt(len))
                  IN  IF Utf8Valid(str) THEN Read(str, Drop(rest, ToInt(len)))
                      ELSE ReadFailed

\* T::try_from_slice: every byte must be consumed.
try_from_slice(r) ==
    IF r.ok /\ r.rest = <<>> THEN Ok(r.v) ELSE Err("Borsh")

\* A faulty variant of map_err: the error becomes TokenFactoryError::InvalidMessagePayload.
map_err_to_payload_error(r) ==
    IF r.ok THEN r ELSE Err("InvalidMessagePayload")

\* map_err(|_| ProgramError::InvalidInstructionData.into())
map_err(r) ==
    IF r.ok THEN r ELSE Err("InvalidInstructionData")

\* TokenCreationPayload::deserialize (derived): the fields in order.
TokenCreationPayload_deserialize(buf) ==
    LET r1 == read_u64(buf)
        r2 == read_string(r1.rest)
        r3 == read_string(r2.rest)
        r4 == read_u8(r3.rest)
        r5 == read_string(r4.rest)
        r6 == read_u64(r5.rest)
        r7 == read_u8(r6.rest)
        r8 == read_u64(r7.rest)
        r9 == read_u64(r8.rest)
        r10 == read_u16(r9.rest)
    IN  IF /\ r1.ok /\ r2.ok /\ r3.ok /\ r4.ok /\ r5.ok
           /\ r6.ok /\ r7.ok /\ r8.ok /\ r9.ok /\ r10.ok
        THEN Read([token_id |-> r1.v, name |-> r2.v, symbol |-> r3.v,
                   decimals |-> r4.v, metadata_uri |-> r5.v,
                   initial_supply |-> r6.v, curve_type |-> r7.v,
                   base_price |-> r8.v, slope |-> r9.v,
                   reserve_ratio |-> r10.v],
                  r10.rest)
        ELSE ReadFailed

\* PriceUpdatePayload::deserialize (derived)
PriceUpdatePayload_deserialize(buf) ==
    LET r1 == read_u64(buf)
        r2 == read_u64(r1.rest)
        r3 == read_u64(r2.rest)
        r4 == read_i64(r3.rest)
    IN  IF r1.ok /\ r2.ok /\ r3.ok /\ r4.ok
        THEN Read([token_id |-> r1.v, current_price |-> r2.v,
                   current_supply |-> r3.v, timestamp |-> r4.v],
                  r4.rest)
        ELSE ReadFailed

\* LiquidityUpdatePayload::deserialize (derived)
LiquidityUpdatePayload_deserialize(buf) ==
    LET r1 == read_u64(buf)
        r2 == read_u64(r1.rest)
        r3 == read_u64(r2.rest)
        r4 == read_u64(r3.rest)
        r5 == read_i64(r4.rest)
    IN  IF r1.ok /\ r2.ok /\ r3.ok /\ r4.ok /\ r5.ok
        THEN Read([token_id |-> r1.v, liquidity_added |-> r2.v,
                   liquidity_removed |-> r3.v, current_liquidity |-> r4.v,
                   timestamp |-> r5.v],
                  r5.rest)
        ELSE ReadFailed

\* pub fn parse_token_creation_message
parse_token_creation_message(payload) ==
    map_err(try_from_slice(TokenCreationPayload_deserialize(payload)))

\* pub fn parse_price_update_message
parse_price_update_message(payload) ==
    map_err(try_from_slice(PriceUpdatePayload_deserialize(payload)))

\* pub fn parse_liquidity_update_message
parse_liquidity_update_message(payload) ==
    map_err(try_from_slice(LiquidityUpdatePayload_deserialize(payload)))

(***************************************************************************)
(* The inbound message dispatcher (cross_chain.rs)                         *)
(***************************************************************************)

\* The public items wormhole.rs declares at its top level: what
\* `use wormhole::*;` (cross_chain.rs, line 9) brings into scope.  The
\* MSG_TYPE_* constants are items of the nested module `pub mod wormhole`
\* (wormhole.rs, lines 8-27), one level further down: wormhole.rs itself
\* names them wormhole::MSG_TYPE_* (lines 66, 74, 82), and the glob import
\* brings in the nested module, not what it holds.
WormholeItems ==
    {"wormhole", "TokenCreationPayload", "PriceUpdatePayload",
     "LiquidityUpdatePayload", "serialize_token_creation_message",
     "serialize_price_update_message", "serialize_liquidity_update_message",
     "deserialize_wormhole_message", "parse_token_creation_message",
     "parse_price_update_message", "parse_liquidity_update_message"}

\* A match arm whose pattern is a bare identifier (cross_chain.rs, lines
\* 38-40): it compares against the constant when the identifier names a
\* constant in scope, and is otherwise a new binding, which matches every value.
ArmMatches(ident, constant, scrutinee) ==
    IF ident \in WormholeItems THEN scrutinee = constant ELSE TRUE

\* A faulty variant of process_token_creation: the event is emitted before the result
\* of the parse is looked at.
process_token_creation_emit_first(source_chain, payload) ==
    LET parsed == parse_token_creation_message(payload)
        event == [type |-> "TokenCreatedFromRemoteEvent",
                  source_chain |-> source_chain]
    IN  IF ~parsed.ok THEN Outcome(Err(parsed.err), <<event>>)
        ELSE Outcome(Ok(Unit), <<event>>)

\* fn process_token_creation
process_token_creation(source_chain, payload) ==
    LET parsed == parse_token_creation_message(payload)
    IN  IF ~parsed.ok THEN Outcome(Err(parsed.err), <<>>)
        ELSE Outcome(Ok(Unit),
                     <<[type |-> "TokenCreatedFromRemoteEvent",
                        token_id |-> parsed.value.token_id,
                        name |-> parsed.value.name,
                        symbol |-> parsed.value.symbol,
                        source_chain |-> source_chain]>>)

\* fn process_price_update
process_price_update(source_chain, payload) ==
    LET parsed == parse_price_update_message(payload)
    IN  IF ~parsed.ok THEN Outcome(Err(parsed.err), <<>>)
        ELSE Outcome(Ok(Unit),
                     <<[type |-> "PriceUpdatedFromRemoteEvent",
                        token_id |-> parsed.value.token_id,
                        current_price |-> parsed.value.current_price,
                        current_supply |-> parsed.value.current_supply,
                        source_chain |-> source_chain]>>)

\* fn process_liquidity_update
process_liquidity_update(source_chain, payload) ==
    LET parsed == parse_liquidity_update_message(payload)
    IN  IF ~parsed.ok THEN Outcome(Err(parsed.err), <<>>)
        ELSE Outcome(Ok(Unit),
                     <<[type |-> "LiquidityUpdatedFromRemoteEvent",
                        token_id |-> parsed.value.token_id,
                        current_liquidity |-> parsed.value.current_liquidity,
                        source_chain |-> source_chain]>>)

\* A faulty variant of process_message_result: the buffer is split by
\* deserialize_wormhole_message, whose error for an empty buffer is returned.
process_message_result_split_first(source_chain, source_address, payload) ==
    LET split == deserialize_wormhole_message(payload)
    IN  IF ~split.ok THEN Outcome(Err(split.err), <<>>)
        ELSE process_token_creation(source_chain, split.value[2])

\* pub fn process_message: return value and events.
process_message_result(source_chain, source_address, payload) ==
    IF payload = <<>> THEN Outcome(Err("InvalidMessagePayload"), <<>>)
    ELSE LET message_type == payload[1]
             body == Tail(payload)
         IN  IF ArmMatches("MSG_TYPE_TOKEN_CREATION", MSG_TYPE_TOKEN_CREATION,
                           message_type)
             THEN process_token_creation(source_chain, body)
             ELSE IF ArmMatches("MSG_TYPE_PRICE_UPDATE", MSG_TYPE_PRICE_UPDATE,
                                message_type)
             THEN process_price_update(source_chain, body)
             ELSE IF ArmMatches("MSG_TYPE_LIQUIDITY_UPDATE",
                                MSG_TYPE_LIQUIDITY_UPDATE, message_type)
             THEN process_liquidity_update(source_chain, body)
             ELSE Outcome(Err("UnknownMessageType"), <<>>)

(***************************************************************************)
(* Bounds and the inputs the model draws                                   *)
(***************************************************************************)

\* The number of tokens created.
MaxTokens == 2

\* The number of bytes appended after a complete message body.
MaxExtra == 2

\* Text as UTF-8 bytes: "", "A", "Tok", "h", and "Aé" (é is two bytes).
NoText == <<>>

TextA == <<65>>

TextTok == <<84, 111, 107>>

TextH == <<104>>

TextAe == <<65, 195, 169>>

\* 2^32 and 2^63, beyond what one 32-bit integer holds.
Pow2_32 == <<0, 0, 0, 0, 1>>

Pow2_63 == <<0, 0, 0, 0, 0, 0, 0, 128>>

\* i64 values: a non-negative or a negative one.
Pos(mag) == [neg |-> FALSE, mag |-> mag]

Neg(mag) == [neg |-> TRUE, mag |-> mag]

\* The signers of instructions.
Signers == {"alice", "bob"}

\* The signer of initialize.
Admins == {"admin"}

\* The addresses a TokenFactory account is created at: the Initialize accounts
\* give the address no seeds (lines 237-242), so the caller chooses it and
\* every new address gets its own account.
Factories == {"factory1", "factory2"}

\* The TokenFactory account the tokens of the life cycle are created with.
LifeCycleFactories == {"factory1"}

\* The one TokenFactory account of the studies of a single function.
OneFactory ==
    [f \in Factories |->
        IF f = "factory1"
        THEN [initialize_account("alice") EXCEPT !.token_count = 1]
        ELSE Uninitialized]

\* Arguments of the instructions in the program's life cycle.
Emitters == {"emitter"}

ChainIdLists == {<<2>>, <<4, 30>>}

TargetChains == {2, 4}

OutboundPayloads == {<<1, 7>>}

CurveTypes == {2, 3}

BasePrices == {N(100)}

Slopes == {N(1)}

ReserveRatios == {800, 1001}

Supplies == {N(5000)}

Amounts == {N(3)}

\* Arguments of the price calculation studied on its own: every curve a
\* BondingCurve value can hold, and supplies and amounts up to u64::MAX.
PriceCurves ==
    [enabled : BOOLEAN,
     curve_type : {0, 1, 2, 3, 255},
     base_price : {N(0), N(100), Pow2_32, U64_MAX},
     slope : {N(0), N(1), N(500), U64_MAX},
     reserve_ratio : {0, 1, 800, 999, 1000, 65535}]

PriceSupplies == {N(0), N(10), N(20), N(1000), N(1001), N(5000), Pow2_32, U64_MAX}

PriceAmounts == {N(0), N(1), N(2), N(3), N(5), U64_MAX}

\* Payloads given to the codec.
TokenCreationPayloads ==
    [token_id : {N(0), N(7), U64_MAX},
     name : {NoText, TextTok, TextAe},
     symbol : {TextA},
     decimals : {0, 9, 255},
     metadata_uri : {NoText, TextH},
     initial_supply : {N(1000000)},
     curve_type : {0, 2},
     base_price : {N(100)},
     slope : {N(1), Pow2_63},
     reserve_ratio : {0, 800, 65535}]

PriceUpdatePayloads ==
    [token_id : {N(0), N(7), U64_MAX},
     current_price : {N(0), N(42), U64_MAX},
     current_supply : {N(0), N(1000), Pow2_32},
     timestamp : {Pos(N(0)), Pos(N(1700000000)), Neg(N(1)), Neg(Pow2_63)}]

LiquidityUpdatePayloads ==
    [token_id : {N(0), N(7)},
     liquidity_added : {N(0), N(500)},
     liquidity_removed : {N(0), U64_MAX},
     current_liquidity : {N(0), N(12345)},
     timestamp : {Pos(N(1700000000)), Neg(N(1)), Pos(NatDiv(U64_MAX, 2))}]

\* Messages given to the dispatcher: a few payloads of each kind, ...
DispatchTokenCreations ==
    {[token_id |-> N(7), name |-> TextTok, symbol |-> TextA, decimals |-> 9,
      metadata_uri |-> TextH, initial_supply |-> N(1000000), curve_type |-> 2,
      base_price |-> N(100), slope |-> N(1), reserve_ratio |-> 800],
     [token_id |-> N(0), name |-> NoText, symbol |-> NoText, decimals |-> 0,
      metadata_uri |-> NoText, initial_supply |-> N(0), curve_type |-> 0,
      base_price |-> N(0), slope |-> N(0), reserve_ratio |-> 0]}

DispatchPriceUpdates ==
    {[token_id |-> N(7), current_price |-> N(42), current_supply |-> N(1000),
      timestamp |-> Pos(N(1700000000))],
     [token_id |-> N(7), current_price |-> N(0), current_supply |-> N(0),
      timestamp |-> Pos(N(0))],
     [token_id |-> U64_MAX, current_price |-> U64_MAX, current_supply |-> N(1),
      timestamp |-> Neg(N(1))]}

DispatchLiquidityUpdates ==
    {[token_id |-> N(7), liquidity_added |-> N(500), liquidity_removed |-> N(0),
      current_liquidity |-> N(12345), timestamp |-> Pos(N(1700000000))]}

\* ... their bodies as encoded, ...
Encodings(kind) ==
    IF kind = MSG_TYPE_TOKEN_CREATION
    THEN {TokenCreationPayload_serialize(p) : p \in DispatchTokenCreations}
    ELSE IF kind = MSG_TYPE_PRICE_UPDATE
    THEN {PriceUpdatePayload_serialize(p) : p \in DispatchPriceUpdates}
    ELSE {LiquidityUpdatePayload_serialize(p) : p \in DispatchLiquidityUpdates}

AllEncodings == Encodings(1) \cup Encodings(2) \cup Encodings(3)

\* ... cut short anywhere (a prefix), or followed by up to MaxExtra more bytes, ...
Prefixes(b) == {SubSeq(b, 1, n) : n \in 0..Len(b)}

StrictPrefixes(b) == {SubSeq(b, 1, n) : n \in 0..(Len(b) - 1)}

\* Sixteen bytes: what the shortest TokenCreationPayload body (48 bytes) has
\* more than a PriceUpdatePayload body (32 bytes).
Padding == [i \in 1..16 |-> 0]

ExtraBytes == {[i \in 1..n |-> 0] : n \in 1..MaxExtra} \cup {Padding}

Bodies ==
    UNION {Prefixes(b) : b \in AllEncodings}
        \cup {b \o x : b \in AllEncodings, x \in ExtraBytes}

\* ... behind every kind of tag byte; and the empty buffer.
Tags == {0, 1, 2, 3, 4, 255}

Buffers == {<<>>} \cup {<<t>> \o b : t \in Tags, b \in Bodies}

SourceChains == {2, 30}

LifeCycleSourceChains == {2}

SourceAddresses == {<<171, 205>>}

\* The few messages dispatched in the program's life cycle.
LifeCycleBuffers ==
    {<<>>, <<2>> \o PriceUpdatePayload_serialize(
                       [token_id |-> N(7), current_price |-> N(42),
                        current_supply |-> N(1000),
                        timestamp |-> Pos(N(1700000000))])}

(***************************************************************************)
(* Actions                                                                 *)
(***************************************************************************)

NoCall == [op |-> "none"]

\* Before initialize: no TokenFactory account, no TokenData account.
Init ==
    /\ token_factory = [f \in Factories |-> Uninitialized]
    /\ tokens = <<>>
    /\ call = NoCall
    /\ ret = Ok(Unit)
    /\ events = <<>>
    /\ wire = <<>>
    /\ sent = <<>>

\* initialize: the TokenFactory account at address f is created by the
\* instruction (init, lines 237-241), so it runs once for an address.
initialize(f, authority) ==
    /\ ~token_factory[f].initialized
    /\ token_factory' = [token_factory EXCEPT ![f] = initialize_account(authority)]
    /\ call' = [op |-> "initialize", factory |-> f, authority |-> authority]
    /\ ret' = Ok(Unit)
    /\ events' = <<>>
    /\ UNCHANGED <<tokens, wire, sent>>

\* create_token with the TokenFactory account at address f: a new TokenData
\* account and a new mint (init, lines 255-268); mint_ok is whether the token
\* program's mint_to succeeds (line 56, `?`).
create_token(f, authority, name, symbol, decimals, metadata_uri, initial_supply, mint_ok) ==
    /\ token_factory[f].initialized
    /\ Len(tokens) < MaxTokens
    /\ LET mint == <<"mint", Len(tokens)>>
           token_data ==
               create_token_account(token_factory[f].token_count, mint, authority,
                                    name, symbol, decimals, metadata_uri,
                                    initial_supply)
       IN  /\ call' = [op |-> "create_token", factory |-> f,
                       authority |-> authority, mint_ok |-> mint_ok]
           /\ IF mint_ok
              THEN /\ tokens' = Append(tokens, token_data)
                   /\ token_factory' =
                          [token_factory EXCEPT ![f].token_count = @ + 1]
                   /\ ret' = Ok(Unit)
                   /\ events' = <<TokenCreatedEvent(token_data)>>
              ELSE /\ ret' = Err("MintToFailed")
                   /\ events' = <<>>
                   /\ UNCHANGED <<tokens, token_factory>>
    /\ UNCHANGED <<wire, sent>>

\* enable_cross_chain on the t-th TokenData account.
enable_cross_chain(t, authority, wormhole_emitter, chain_ids) ==
    /\ t \in 1..Len(tokens)
    /\ LET out == enable_cross_chain_result(tokens[t], authority,
                                            wormhole_emitter, chain_ids)
       IN  /\ call' = [op |-> "enable_cross_chain", t |-> t,
                       authority |-> authority,
                       wormhole_emitter |-> wormhole_emitter,
                       chain_ids |-> chain_ids]
           /\ ret' = out.ret
           /\ events' = out.events
           /\ tokens' =
                  IF out.ret.ok
                  THEN [tokens EXCEPT ![t] =
                           enable_cross_chain_account(@, wormhole_emitter,
                                                      chain_ids)]
                  ELSE tokens
    /\ UNCHANGED <<token_factory, wire, sent>>

\* configure_bonding_curve on the t-th TokenData account.
configure_bonding_curve(t, authority, curve_type, base_price, slope, reserve_ratio) ==
    /\ t \in 1..Len(tokens)
    /\ LET out == configure_bonding_curve_result(tokens[t], authority,
                                                 curve_type, base_price, slope,
                                                 reserve_ratio)
       IN  /\ call' = [op |-> "configure_bonding_curve", t |-> t,
                       authority |-> authority, curve_type |-> curve_type,
                       base_price |-> base_price, slope |-> slope,
                       reserve_ratio |-> reserve_ratio]
           /\ ret' = out.ret
           /\ events' = out.events
           /\ tokens' =
                  IF out.ret.ok
                  THEN [tokens EXCEPT ![t] =
                           configure_bonding_curve_account(@, curve_type,
                                                           base_price, slope,
                                                           reserve_ratio)]
                  ELSE tokens
    /\ UNCHANGED <<token_factory, wire, sent>>

\* A faulty variant of calculate_price: a price that was quoted is written
\* back to the token account as the curve's base price.
calculate_price_storing(t, supply, amount) ==
    /\ t \in 1..Len(tokens)
    /\ LET out == calculate_price_result(tokens[t], supply, amount)
       IN  /\ call' = [op |-> "calculate_price", t |-> t, supply |-> supply,
                       amount |-> amount]
           /\ ret' = out.ret
           /\ events' = out.events
           /\ tokens' =
                  IF out.ret.ok
                  THEN [tokens EXCEPT ![t].bonding_curve.base_price =
                                          out.ret.value]
                  ELSE tokens
    /\ UNCHANGED <<token_factory, wire, sent>>

\* calculate_price on the t-th TokenData account (read only).
calculate_price(t, supply, amount) ==
    /\ t \in 1..Len(tokens)
    /\ LET out == calculate_price_result(tokens[t], supply, amount)
       IN  /\ call' = [op |-> "calculate_price", t |-> t, supply |-> supply,
                       amount |-> amount]
           /\ ret' = out.ret
           /\ events' = out.events
    /\ UNCHANGED <<token_factory, tokens, wire, sent>>

\* send_cross_chain_message on the t-th TokenData account (read only).
send_cross_chain_message(t, authority, target_chain, payload) ==
    /\ t \in 1..Len(tokens)
    /\ LET out == send_cross_chain_message_result(tokens[t], authority,
                                                  target_chain, payload)
       IN  /\ call' = [op |-> "send_cross_chain_message", t |-> t,
                       authority |-> authority, target_chain |-> target_chain,
                       payload |-> payload]
           /\ ret' = out.ret
           /\ events' = out.events
    /\ UNCHANGED <<token_factory, tokens, wire, sent>>

\* ReceiveWormholeMessage::process_message; its accounts include a TokenData
\* account, which it neither reads nor writes.
process_message(source_chain, source_address, payload) ==
    /\ Len(tokens) >= 1
    /\ LET out == process_message_result(source_chain, source_address, payload)
       IN  /\ call' = [op |-> "process_message", source_chain |-> source_chain,
                       source_address |-> source_address, payload |-> payload]
           /\ ret' = out.ret
           /\ events' = out.events
    /\ UNCHANGED <<token_factory, tokens, wire, sent>>

\* serialize_*_message: the bytes go on the wire.
serialize_message(kind, payload) ==
    /\ wire' =
           IF kind = MSG_TYPE_TOKEN_CREATION
           THEN serialize_token_creation_message(payload)
           ELSE IF kind = MSG_TYPE_PRICE_UPDATE
           THEN serialize_price_update_message(payload)
           ELSE serialize_liquidity_update_message(payload)
    /\ sent' = payload
    /\ call' = [op |-> "serialize", kind |-> kind]
    /\ ret' = Ok(wire')
    /\ events' = <<>>
    /\ UNCHANGED <<token_factory, tokens>>

\* deserialize_wormhole_message on the bytes on the wire, then the
\* parse_*_message of the message type on the rest.
parse_message ==
    /\ call.op = "serialize"
    /\ LET split == deserialize_wormhole_message(wire)
           message_type == split.value[1]
           payload == split.value[2]
       IN  /\ split.ok
           /\ call' = [op |-> "parse", kind |-> message_type]
           /\ ret' =
                  IF message_type = MSG_TYPE_TOKEN_CREATION
                  THEN parse_token_creation_message(payload)
                  ELSE IF message_type = MSG_TYPE_PRICE_UPDATE
                  THEN parse_price_update_message(payload)
                  ELSE parse_liquidity_update_message(payload)
    /\ events' = <<>>
    /\ UNCHANGED <<token_factory, tokens, wire, sent>>

(***************************************************************************)
(* Specifications                                                          *)
(***************************************************************************)

\* The program's life cycle.
Next ==
    \/ \E f \in LifeCycleFactories, a \in Admins : initialize(f, a)
    \/ \E f \in LifeCycleFactories, a \in Signers, ok \in BOOLEAN :
           create_token(f, a, TextTok, TextA, 9, TextH, N(1000000), ok)
    \/ \E t \in 1..MaxTokens, a \in Signers, e \in Emitters, c \in ChainIdLists :
           enable_cross_chain(t, a, e, c)
    \/ \E t \in 1..MaxTokens, a \in Signers, ct \in CurveTypes, bp \in BasePrices,
          sl \in Slopes, rr \in ReserveRatios :
           configure_bonding_curve(t, a, ct, bp, sl, rr)
    \/ \E t \in 1..MaxTokens, su \in Supplies, am \in Amounts :
           calculate_price(t, su, am)
    \/ \E t \in 1..MaxTokens, a \in Signers, tc \in TargetChains,
          p \in OutboundPayloads :
           send_cross_chain_message(t, a, tc, p)
    \/ \E sc \in LifeCycleSourceChains, sa \in SourceAddresses, p \in LifeCycleBuffers :
           process_message(sc, sa, p)

Spec == Init /\ [][Next]_vars

\* The life cycle with TokenFactory accounts at two addresses: every
\* instruction, the token instructions with one choice of arguments each.
FactoryNext ==
    \/ \E f \in Factories, a \in Admins : initialize(f, a)
    \/ \E f \in Factories, a \in Signers, ok \in BOOLEAN :
           create_token(f, a, TextTok, TextA, 9, TextH, N(1000000), ok)
    \/ \E t \in 1..MaxTokens :
           enable_cross_chain(t, "alice", "emitter", <<2>>)
    \/ \E t \in 1..MaxTokens :
           configure_bonding_curve(t, "alice", 2, N(100), N(1), 800)
    \/ \E t \in 1..MaxTokens : calculate_price(t, N(5000), N(3))
    \/ \E t \in 1..MaxTokens :
           send_cross_chain_message(t, "alice", 2, <<1, 7>>)
    \/ \E sc \in LifeCycleSourceChains, sa \in SourceAddresses :
           process_message(sc, sa, <<>>)

FactorySpec == Init /\ [][FactoryNext]_vars

\* A token as create_token leaves it, with the given bonding curve.
TokenWithCurve(curve) ==
    [create_token_account(0, <<"mint", 0>>, "alice", TextTok, TextA, 9, TextH,
                          N(1000000))
        EXCEPT !.bonding_curve = curve]

\* The price calculation on its own: one token, holding any BondingCurve value.
PriceInit ==
    /\ token_factory = OneFactory
    /\ \E curve \in PriceCurves : tokens = <<TokenWithCurve(curve)>>
    /\ call = NoCall
    /\ ret = Ok(Unit)
    /\ events = <<>>
    /\ wire = <<>>
    /\ sent = <<>>

PriceNext ==
    /\ call = NoCall
    /\ \E su \in PriceSupplies, am \in PriceAmounts : calculate_price(1, su, am)

PriceSpec == PriceInit /\ [][PriceNext]_vars

\* The codec on its own: a payload is serialized, the bytes are parsed.
CodecNext ==
    \/ /\ call = NoCall
       /\ \/ \E p \in TokenCreationPayloads :
                 serialize_message(MSG_TYPE_TOKEN_CREATION, p)
          \/ \E p \in PriceUpdatePayloads :
                 serialize_message(MSG_TYPE_PRICE_UPDATE, p)
          \/ \E p \in LiquidityUpdatePayloads :
                 serialize_message(MSG_TYPE_LIQUIDITY_UPDATE, p)
    \/ parse_message

CodecSpec == Init /\ [][CodecNext]_vars

\* The dispatcher on its own: one token exists, any buffer arrives.
DispatchInit ==
    /\ token_factory = OneFactory
    /\ tokens = <<TokenWithCurve(BondingCurve_default)>>
    /\ call = NoCall
    /\ ret = Ok(Unit)
    /\ events = <<>>
    /\ wire = <<>>
    /\ sent = <<>>

DispatchNext ==
    /\ call = NoCall
    /\ \E sc \in SourceChains, sa \in SourceAddresses, p \in Buffers :
           process_message(sc, sa, p)

DispatchSpec == DispatchInit /\ [][DispatchNext]_vars

(***************************************************************************)
(* Properties                                                              *)
(***************************************************************************)

\* The token account a call was made on.
CalledToken == tokens[call.t]

\* C1.  Round trip: the bytes serialize_*_message produces start with the
\* variant's tag (1, 2 or 3), and the matching parse_*_message applied to the
\* bytes after the tag returns the payload that was serialized, field for field.
C1_RoundTrip ==
    /\ call.op = "serialize" =>
           /\ call.kind \in {1, 2, 3}
           /\ wire # <<>>
           /\ wire[1] = call.kind
    /\ call.op = "parse" =>
           /\ call.kind = wire[1]
           /\ ret = Ok(sent)

\* C1, reached: a token creation payload with two-byte text and the largest
\* token id has gone through serialize and parse.
C1_Witness ==
    /\ call.op = "parse"
    /\ call.kind = MSG_TYPE_TOKEN_CREATION
    /\ sent.name = TextAe
    /\ sent.token_id = U64_MAX
    /\ sent.reserve_ratio = 65535
    /\ ret = Ok(sent)

\* C2.  calculate_price on a curve that is not enabled fails with
\* BondingCurveNotEnabled whatever the curve type (0, 1, 2 or another value),
\* the prices, the reserve ratio, the supply and the amount, and emits nothing.
C2_DisabledCurveFails ==
    (call.op = "calculate_price" /\ ~CalledToken.bonding_curve.enabled) =>
        /\ ret = Err("BondingCurveNotEnabled")
        /\ events = <<>>

\* C2, reached: a disabled curve of an unknown type was asked for a price.
C2_Witness ==
    /\ call.op = "calculate_price"
    /\ ~CalledToken.bonding_curve.enabled
    /\ CalledToken.bonding_curve.curve_type = 255
    /\ call.supply = U64_MAX
    /\ ret = Err("BondingCurveNotEnabled")

\* x is the exact value, clamped at u64::MAX.
Clamped(x, exact) ==
    x = (IF NatGt(exact, U64_MAX) THEN U64_MAX ELSE exact)

\* C3.  On an enabled curve calculate_price returns a price within
\* [0, 2^64-1] for every supply and amount up to 2^64-1, and its additions,
\* multiplications and powers clamp at 2^64-1 instead of wrapping; the only
\* other outcome is InvalidCurveType, exactly when the curve type is not 0, 1 or 2.
C3_PriceSaturates ==
    (call.op = "calculate_price" /\ CalledToken.bonding_curve.enabled) =>
        LET curve == CalledToken.bonding_curve
            slope_supply == saturating_mul(curve.slope, call.supply)
            supply_factor ==
                IF NatGt(call.supply, N(1000)) THEN NatDiv(call.supply, 1000)
                ELSE N(1)
            ratio_factor == IF curve.reserve_ratio = 0 THEN 1 ELSE 0
        IN  IF curve.curve_type \in {0, 1, 2}
            THEN /\ ret.ok
                 /\ IsU64(ret.value)
                 /\ ~NatGt(ret.value, U64_MAX)
                 /\ Clamped(slope_supply, NatMul(curve.slope, call.supply))
                 /\ Clamped(saturating_add(curve.base_price, slope_supply),
                            NatAdd(curve.base_price, slope_supply))
                 /\ Clamped(saturating_pow(supply_factor, ratio_factor),
                            IF ratio_factor = 1 THEN supply_factor ELSE N(1))
                 /\ (call.amount = U64_MAX /\ ret.value # N(0)) =>
                        ret.value = U64_MAX
            ELSE /\ ret = Err("InvalidCurveType")
                 /\ events = <<>>

\* C3, reached: an exponential curve priced at the largest supply and amount
\* gave the clamped price 2^64-1.
C3_Witness ==
    /\ call.op = "calculate_price"
    /\ CalledToken.bonding_curve.enabled
    /\ CalledToken.bonding_curve.curve_type = 1
    /\ CalledToken.bonding_curve.slope = U64_MAX
    /\ call.supply = U64_MAX
    /\ call.amount = U64_MAX
    /\ ret = Ok(U64_MAX)

\* The reference arithmetic of the formulas: + and * clamped at 2^64-1.
RefAdd(a, b) ==
    LET x == NatAdd(a, b) IN IF NatGt(x, U64_MAX) THEN U64_MAX ELSE x

RefMul(a, b) ==
    LET x == NatMul(a, b) IN IF NatGt(x, U64_MAX) THEN U64_MAX ELSE x

\* Linear: (base_price + slope*supply) * amount
RefLinear(base_price, slope, supply, amount) ==
    RefMul(RefAdd(base_price, RefMul(slope, supply)), amount)

\* Exponential: (base_price + (base_price * ((slope*supply)/10000)) / 100) * amount
RefExponential(base_price, slope, supply, amount) ==
    RefMul(RefAdd(base_price,
                  NatDiv(RefMul(base_price, NatDiv(RefMul(slope, supply), 10000)),
                         100)),
           amount)

\* BancorApprox: (base_price * supply_factor ^ ((1000 - reserve_ratio)/1000))
\* * amount, supply_factor = supply/1000 if supply > 1000 else 1; the exponent
\* is 1 when reserve_ratio is 0 and 0 when it is in 1..1000.
RefBancor(base_price, reserve_ratio, supply, amount) ==
    LET supply_factor ==
            IF NatGt(supply, N(1000)) THEN NatDiv(supply, 1000) ELSE N(1)
        power ==
            IF (1000 - reserve_ratio) \div 1000 = 1 THEN supply_factor ELSE N(1)
    IN  RefMul(RefMul(base_price, power), amount)

\* The same formulas in ordinary integers, for operands small enough that no
\* step leaves 32 bits (and so none saturates).
Small(d) == Len(d) <= 2 /\ ToInt(d) <= 1000

IntLinear(b, s, su, am) == (b + s * su) * am

IntExponential(b, s, su, am) == (b + (b * ((s * su) \div 10000)) \div 100) * am

IntBancor(b, rr, su, am) ==
    (b * (IF su > 1000 THEN su \div 1000 ELSE 1) ^ ((1000 - rr) \div 1000)) * am

\* C4.  On an enabled curve calculate_price returns the reference formula of
\* the curve's family (every + and * clamped at 2^64-1, / rounding down), for
\* every reserve ratio configure_bonding_curve accepts (at most 1000); and
\* Linear(100,1,10,5) = 550, Exponential(100,500,20,2) = 202,
\* Bancor(base 100, ratio 800, supply 5000, amount 3) = 300.
C4_PriceFormula ==
    /\ calculate_linear_price(N(10), N(5), N(100), N(1)) = N(550)
    /\ calculate_exponential_price(N(20), N(2), N(100), N(500)) = N(202)
    /\ calculate_bancor_price(N(5000), N(3), N(100), 800) = N(300)
    /\ (call.op = "calculate_price" /\ CalledToken.bonding_curve.enabled) =>
           LET curve == CalledToken.bonding_curve
               small == /\ Small(curve.base_price) /\ Small(curve.slope)
                        /\ Small(call.supply) /\ Small(call.amount)
               b == ToInt(curve.base_price)
               s == ToInt(curve.slope)
               su == ToInt(call.supply)
               am == ToInt(call.amount)
           IN  /\ curve.curve_type = 0 =>
                      /\ ret = Ok(RefLinear(curve.base_price, curve.slope,
                                            call.supply, call.amount))
                      /\ small => ret.value = N(IntLinear(b, s, su, am))
               /\ curve.curve_type = 1 =>
                      /\ ret = Ok(RefExponential(curve.base_price, curve.slope,
                                                 call.supply, call.amount))
                      /\ small => ret.value = N(IntExponential(b, s, su, am))
               /\ (curve.curve_type = 2 /\ curve.reserve_ratio <= 1000) =>
                      /\ ret = Ok(RefBancor(curve.base_price, curve.reserve_ratio,
                                            call.supply, call.amount))
                      /\ (Small(curve.base_price) /\ Small(call.amount)
                             /\ Len(call.supply) <= 2) =>
                             ret.value = N(IntBancor(b, curve.reserve_ratio,
                                                     su, am))
               /\ curve.curve_type \in {0, 1, 2} =>
                      /\ Len(events) = 1
                      /\ events[1].price = ret.value

\* C4, reached: the exponential scenario, base 100, slope 500, supply 20,
\* amount 2, price 202.
C4_Witness ==
    /\ call.op = "calculate_price"
    /\ CalledToken.bonding_curve.enabled
    /\ CalledToken.bonding_curve.curve_type = 1
    /\ CalledToken.bonding_curve.base_price = N(100)
    /\ CalledToken.bonding_curve.slope = N(500)
    /\ call.supply = N(20)
    /\ call.amount = N(2)
    /\ ret = Ok(N(202))

\* C5.  process_message on an empty buffer fails with InvalidMessagePayload,
\* for every source chain and source address, and emits nothing.
C5_EmptyBufferRejected ==
    (call.op = "process_message" /\ call.payload = <<>>) =>
        /\ ret = Err("InvalidMessagePayload")
        /\ events = <<>>

\* C5, reached: an empty buffer from chain 30 was dispatched.
C5_Witness ==
    /\ call.op = "process_message"
    /\ call.payload = <<>>
    /\ call.source_chain = 30
    /\ ret = Err("InvalidMessagePayload")

\* The message bodies that are a complete body of the tag's payload cut short.
Truncated(tag) == UNION {StrictPrefixes(b) : b \in Encodings(tag)}

\* The parse_*_message a tag stands for.
ParseFor(tag, body) ==
    IF tag = MSG_TYPE_TOKEN_CREATION THEN parse_token_creation_message(body)
    ELSE IF tag = MSG_TYPE_PRICE_UPDATE THEN parse_price_update_message(body)
    ELSE parse_liquidity_update_message(body)

Dispatched == call.op = "process_message" /\ call.payload # <<>>

\* C6.  process_message on a buffer whose first byte is 0 or greater than 3
\* fails with UnknownMessageType whatever follows, and emits nothing.
C6_UnknownTagRejected ==
    (Dispatched /\ (call.payload[1] = 0 \/ call.payload[1] > 3)) =>
        /\ ret = Err("UnknownMessageType")
        /\ events = <<>>

FromRemoteEvents ==
    {"TokenCreatedFromRemoteEvent", "PriceUpdatedFromRemoteEvent",
     "LiquidityUpdatedFromRemoteEvent"}

\* C8.  Every process_message ends in one of two ways: Ok with exactly one
\* event emitted, or Err with none.
C8_OneFactOrError ==
    call.op = "process_message" =>
        \/ /\ ret.ok
           /\ Len(events) = 1
           /\ events[1].type \in FromRemoteEvents
        \/ /\ ~ret.ok
           /\ events = <<>>

\* C8, reached: a dispatch that succeeded with its one event.
C8_Witness ==
    /\ call.op = "process_message"
    /\ ret.ok
    /\ Len(events) = 1
    /\ events[1].source_chain = call.source_chain

\* C9.  process_message on tag 2 followed by a complete PriceUpdatePayload
\* body succeeds and emits a PriceUpdatedFromRemote event with the payload's
\* token_id, current_price, current_supply and timestamp and the source_chain
\* argument.
C9_PriceUpdateDispatched ==
    \A p \in DispatchPriceUpdates :
        (Dispatched /\ call.payload = <<2>> \o PriceUpdatePayload_serialize(p)) =>
            /\ ret.ok
            /\ events = <<[type |-> "PriceUpdatedFromRemoteEvent",
                           token_id |-> p.token_id,
                           current_price |-> p.current_price,
                           current_supply |-> p.current_supply,
                           timestamp |-> p.timestamp,
                           source_chain |-> call.source_chain]>>

\* send_cross_chain_message was called with a target chain that is not in
\* the token's supported_chains.
SentToUnsupported ==
    /\ call.op = "send_cross_chain_message"
    /\ ~Contains(CalledToken.cross_chain_info.supported_chains,
                 call.target_chain)

\* C10 as stated.  Such a call fails with UnsupportedChain, for every caller
\* and in every state of the token.
C10_AlwaysUnsupportedChain ==
    SentToUnsupported =>
        /\ ret = Err("UnsupportedChain")
        /\ events = <<>>

\* C10.  Such a call fails and emits no CrossChainMessageSent event, for every
\* caller and in every state of the token; the error is InvalidAuthority when
\* the signer is not the token's authority, else CrossChainNotEnabled when
\* cross-chain is not enabled, else UnsupportedChain.
C10_UnsupportedChainFails ==
    SentToUnsupported =>
        /\ ~ret.ok
        /\ events = <<>>
        /\ ret.err =
               IF call.authority # CalledToken.authority THEN "InvalidAuthority"
               ELSE IF ~CalledToken.cross_chain_enabled
               THEN "CrossChainNotEnabled"
               ELSE "UnsupportedChain"

\* C10, reached: the authority sent to chain 2 on a token enabled for chains
\* 4 and 30 only, and got UnsupportedChain.
C10_Witness ==
    /\ SentToUnsupported
    /\ call.authority = CalledToken.authority
    /\ CalledToken.cross_chain_enabled
    /\ CalledToken.cross_chain_info.supported_chains = <<4, 30>>
    /\ call.target_chain = 2
    /\ ret = Err("UnsupportedChain")

\* C11.  A token's supported_chains only grows: a chain id that is a member
\* of a token's supported_chains is still a member after every step, whatever
\* the operation (a repeated enable_cross_chain with another list included).
C11_SupportedChainsOnlyGrow ==
    [][\A t \in 1..Len(tokens) :
           LET before == tokens[t].cross_chain_info.supported_chains
               after == tokens'[t].cross_chain_info.supported_chains
           IN  \A i \in 1..Len(before) : Contains(after, before[i])]_vars

\* C12.  In every reachable state every token's stored bonding curve has
\* reserve_ratio <= 1000 and curve_type 0, 1 or 2: the default curve of
\* create_token has, and configure_bonding_curve stores only values that
\* passed both checks.
C12_StoredCurveValid ==
    /\ \A t \in 1..Len(tokens) :
           /\ tokens[t].bonding_curve.reserve_ratio <= 1000
           /\ tokens[t].bonding_curve.curve_type \in {0, 1, 2}
    /\ (call.op = "create_token" /\ ret.ok) =>
           tokens[Len(tokens)].bonding_curve = BondingCurve_default
    /\ (call.op = "configure_bonding_curve" /\ ret.ok) =>
           /\ call.curve_type <= 2
           /\ call.reserve_ratio <= 1000
           /\ CalledToken.bonding_curve.curve_type = call.curve_type
           /\ CalledToken.bonding_curve.reserve_ratio = call.reserve_ratio

\* C12, reached: beside a token that still has the default curve, a second
\* token's curve was configured, after which a configuration with reserve
\* ratio 1001 was refused.
C12_Witness ==
    /\ Len(tokens) = 2
    /\ tokens[1].bonding_curve = BondingCurve_default
    /\ tokens[2].bonding_curve.enabled
    /\ tokens[2].bonding_curve.reserve_ratio = 800
    /\ call.op = "configure_bonding_curve"
    /\ call.t = 2
    /\ call.reserve_ratio = 1001
    /\ ret = Err("InvalidReserveRatio")

\* The instructions that compare the signer with the token's authority.
AuthorityChecked ==
    {"configure_bonding_curve", "enable_cross_chain", "send_cross_chain_message"}

\* The bonding curve and the cross-chain configuration of a token account.
Configuration(token_data) ==
    <<token_data.bonding_curve, token_data.cross_chain_enabled,
      token_data.cross_chain_info>>

\* C13.  configure_bonding_curve, enable_cross_chain and
\* send_cross_chain_message invoked by a signer that is not the token's
\* authority fail with InvalidAuthority whatever their other arguments and
\* the token's state (so before any other check), leave every token account
\* as it was and emit nothing; and a token's bonding curve and cross-chain
\* configuration change only in a successful configure_bonding_curve or
\* enable_cross_chain signed by that token's authority.
C13_OnlyAuthorityConfigures ==
    [][/\ (/\ call'.op \in AuthorityChecked
           /\ call'.authority # tokens[call'.t].authority) =>
              /\ ret' = Err("InvalidAuthority")
              /\ events' = <<>>
              /\ tokens' = tokens
       /\ \A t \in 1..Len(tokens) :
              /\ tokens'[t].authority = tokens[t].authority
              /\ Configuration(tokens'[t]) # Configuration(tokens[t]) =>
                     /\ call'.op \in {"configure_bonding_curve",
                                      "enable_cross_chain"}
                     /\ call'.t = t
                     /\ call'.authority = tokens[t].authority
                     /\ ret'.ok]_vars

\* C13, reached: bob asked for curve type 3 and reserve ratio 1001 on
\* alice's token, whose curve is still the default one, and got
\* InvalidAuthority.
C13_Witness ==
    /\ call.op = "configure_bonding_curve"
    /\ call.authority = "bob"
    /\ CalledToken.authority = "alice"
    /\ call.curve_type = 3
    /\ call.reserve_ratio = 1001
    /\ ret = Err("InvalidAuthority")
    /\ events = <<>>
    /\ CalledToken.bonding_curve = BondingCurve_default

\* Every reserve ratio strictly between 0 and 1000 prices like ratio 1: three
\* units at base price 100 cost 300 at supply 5000 and at supply 2^32.
C14_EveryRatioCollapses ==
    \A reserve_ratio \in 1..999 :
        /\ calculate_bancor_price(N(5000), N(3), N(100), reserve_ratio) = N(300)
        /\ calculate_bancor_price(Pow2_32, N(3), N(100), reserve_ratio) = N(300)

\* C14.  On a BancorApprox curve (type 2) the ratio factor
\* (1000 - reserve_ratio)/1000 is 0 for every reserve_ratio strictly between 0
\* and 1000, so the price is base_price * amount (clamped at 2^64-1) whatever
\* the supply; with reserve_ratio 0 the factor is 1 and the price is
\* base_price * supply_factor * amount, which depends on the supply
\* (supply_factor = supply/1000 above 1000, else 1).
C14_BancorRatioFactor ==
    /\ C14_EveryRatioCollapses
    /\ calculate_bancor_price(N(5000), N(3), N(100), 0) = N(1500)
    /\ calculate_bancor_price(N(10), N(3), N(100), 0) = N(300)
    /\ (/\ call.op = "calculate_price"
        /\ CalledToken.bonding_curve.enabled
        /\ CalledToken.bonding_curve.curve_type = 2) =>
           LET curve == CalledToken.bonding_curve
               supply_factor ==
                   IF NatGt(call.supply, N(1000)) THEN NatDiv(call.supply, 1000)
                   ELSE N(1)
           IN  /\ (0 < curve.reserve_ratio /\ curve.reserve_ratio < 1000) =>
                      ret = Ok(RefMul(curve.base_price, call.amount))
               /\ curve.reserve_ratio = 0 =>
                      ret = Ok(RefMul(RefMul(curve.base_price, supply_factor),
                                      call.amount))

\* C14, reached: at reserve ratio 999, base price 100 and supply 2^32 three
\* units cost 300.
C14_Witness ==
    /\ call.op = "calculate_price"
    /\ CalledToken.bonding_curve.enabled
    /\ CalledToken.bonding_curve.curve_type = 2
    /\ CalledToken.bonding_curve.reserve_ratio = 999
    /\ CalledToken.bonding_curve.base_price = N(100)
    /\ call.supply = Pow2_32
    /\ call.amount = N(3)
    /\ ret = Ok(N(300))

\* The event a tag's handler emits.
FactFor(tag) ==
    IF tag = MSG_TYPE_TOKEN_CREATION THEN "TokenCreatedFromRemoteEvent"
    ELSE IF tag = MSG_TYPE_PRICE_UPDATE THEN "PriceUpdatedFromRemoteEvent"
    ELSE "LiquidityUpdatedFromRemoteEvent"

\* C15.  The tag byte alone decides the kind of fact: process_message on tag
\* 1, 2 or 3 followed by a complete body of that tag's payload succeeds and
\* emits the one event of that tag's handler (TokenCreatedFromRemote,
\* PriceUpdatedFromRemote, LiquidityUpdatedFromRemote), with the decoded
\* payload's token_id and the source_chain argument.
C15_FactKindByTag ==
    \A tag \in {1, 2, 3} : \A body \in Encodings(tag) :
        (Dispatched /\ call.payload = <<tag>> \o body) =>
            /\ ret.ok
            /\ Len(events) = 1
            /\ events[1].type = FactFor(tag)
            /\ events[1].token_id = ParseFor(tag, body).value.token_id
            /\ events[1].source_chain = call.source_chain

\* C16.  A token's bonding curve is disabled when create_token completes; it
\* becomes enabled only in a successful configure_bonding_curve on that token;
\* configure_bonding_curve fails exactly when the signer is not the authority,
\* curve_type > 2 or reserve_ratio > 1000, and then leaves the curve as it
\* was; and while the curve is disabled (so in every state before the token's
\* first successful configure_bonding_curve) calculate_price on the token
\* fails with BondingCurveNotEnabled.
C16_DisabledUntilConfigured ==
    [][/\ (call'.op = "create_token" /\ ret'.ok) =>
              /\ Len(tokens') = Len(tokens) + 1
              /\ ~tokens'[Len(tokens')].bonding_curve.enabled
       /\ call'.op = "configure_bonding_curve" =>
              (ret'.ok <=> /\ call'.authority = tokens[call'.t].authority
                           /\ call'.curve_type <= 2
                           /\ call'.reserve_ratio <= 1000)
       /\ \A t \in 1..Len(tokens) :
              /\ (/\ ~tokens[t].bonding_curve.enabled
                  /\ tokens'[t].bonding_curve.enabled) =>
                     /\ call'.op = "configure_bonding_curve"
                     /\ call'.t = t
                     /\ ret'.ok
              /\ (call'.op = "configure_bonding_curve" /\ call'.t = t
                    /\ ~ret'.ok) =>
                     tokens'[t].bonding_curve = tokens[t].bonding_curve
              /\ (call'.op = "calculate_price" /\ call'.t = t
                    /\ ~tokens[t].bonding_curve.enabled) =>
                     /\ ret' = Err("BondingCurveNotEnabled")
                     /\ events' = <<>>]_vars

\* C16, reached: with a second token configured and enabled, a price was
\* asked of the first token, which was never configured, and the call failed
\* with BondingCurveNotEnabled.
C16_Witness ==
    /\ call.op = "calculate_price"
    /\ call.t = 1
    /\ Len(tokens) = 2
    /\ tokens[1].bonding_curve = BondingCurve_default
    /\ tokens[2].bonding_curve.enabled
    /\ ret = Err("BondingCurveNotEnabled")

\* C17.  A CrossChainMessageSent event is emitted only by
\* send_cross_chain_message, and only when the signer is the token's
\* authority, cross_chain_enabled is true and target_chain is in the token's
\* current supported_chains; the checks run in that order (InvalidAuthority,
\* then CrossChainNotEnabled, then UnsupportedChain); and the event carries
\* the target_chain and the payload of the call.
C17_SendGuardedInOrder ==
    /\ \A i \in 1..Len(events) :
           events[i].type = "CrossChainMessageSentEvent" =>
               call.op = "send_cross_chain_message"
    /\ call.op = "send_cross_chain_message" =>
           LET is_authority == call.authority = CalledToken.authority
               enabled == CalledToken.cross_chain_enabled
               supported ==
                   Contains(CalledToken.cross_chain_info.supported_chains,
                            call.target_chain)
           IN  /\ ret = IF ~is_authority THEN Err("InvalidAuthority")
                        ELSE IF ~enabled THEN Err("CrossChainNotEnabled")
                        ELSE IF ~supported THEN Err("UnsupportedChain")
                        ELSE Ok(Unit)
               /\ events # <<>> =>
                      /\ is_authority /\ enabled /\ supported
                      /\ events = <<[type |-> "CrossChainMessageSentEvent",
                                     token_id |-> CalledToken.token_id,
                                     mint |-> CalledToken.mint,
                                     target_chain |-> call.target_chain,
                                     payload |-> call.payload]>>
               /\ ret.ok => events # <<>>

\* C17, reached: the authority sent a payload to chain 4 on a token enabled
\* for chains 4 and 30, and the event carries that chain and payload.
C17_Witness ==
    /\ call.op = "send_cross_chain_message"
    /\ call.authority = CalledToken.authority
    /\ CalledToken.cross_chain_info.supported_chains = <<4, 30>>
    /\ call.target_chain = 4
    /\ ret.ok
    /\ Len(events) = 1
    /\ events[1].target_chain = 4
    /\ events[1].payload = call.payload

\* C18.  configure_bonding_curve signed by the token's authority fails with
\* InvalidCurveType when curve_type > 2 (also when the reserve ratio is
\* invalid too), and with InvalidReserveRatio when curve_type <= 2 and
\* reserve_ratio > 1000; in both cases the stored bonding curve keeps every
\* field (curve_type, base_price, slope, reserve_ratio, enabled) and nothing
\* is emitted.
C18_ConfigureErrorsInOrder ==
    [][(/\ call'.op = "configure_bonding_curve"
        /\ call'.authority = tokens[call'.t].authority) =>
           /\ call'.curve_type > 2 =>
                  ret' = Err("InvalidCurveType")
           /\ (call'.curve_type <= 2 /\ call'.reserve_ratio > 1000) =>
                  ret' = Err("InvalidReserveRatio")
           /\ (call'.curve_type > 2 \/ call'.reserve_ratio > 1000) =>
                  /\ ~ret'.ok
                  /\ events' = <<>>
                  /\ tokens'[call'.t].bonding_curve
                         = tokens[call'.t].bonding_curve
                  /\ tokens' = tokens]_vars

\* C18, reached: on a token whose curve is configured (reserve ratio 800),
\* the authority asked for curve type 3 with reserve ratio 1001, got
\* InvalidCurveType, and the stored curve is the configured one.
C18_Witness ==
    /\ call.op = "configure_bonding_curve"
    /\ call.authority = CalledToken.authority
    /\ call.curve_type = 3
    /\ call.reserve_ratio = 1001
    /\ ret = Err("InvalidCurveType")
    /\ events = <<>>
    /\ CalledToken.bonding_curve =
           [enabled |-> TRUE, curve_type |-> 2, base_price |-> N(100),
            slope |-> N(1), reserve_ratio |-> 800]

\* The operations that only read the accounts.
ReadOnly == {"calculate_price", "send_cross_chain_message", "process_message"}

\* C19.  calculate_price, send_cross_chain_message and process_message,
\* successful or failed, leave every token account (bonding curve, cross-chain
\* configuration, authority, token_id and the rest) and the factory's
\* token_count as they were; and what they return and emit is a function of
\* their arguments and the token account alone, whatever was called before.
C19_ReadOnlyOperations ==
    [][call'.op \in ReadOnly =>
           /\ tokens' = tokens
           /\ token_factory' = token_factory
           /\ call'.op = "calculate_price" =>
                  Outcome(ret', events') =
                      calculate_price_result(tokens[call'.t], call'.supply,
                                             call'.amount)
           /\ call'.op = "send_cross_chain_message" =>
                  Outcome(ret', events') =
                      send_cross_chain_message_result(
                          tokens[call'.t], call'.authority, call'.target_chain,
                          call'.payload)
           /\ call'.op = "process_message" =>
                  Outcome(ret', events') =
                      process_message_result(call'.source_chain,
                                             call'.source_address,
                                             call'.payload)]_vars

\* C19, reached: a price was quoted on a configured token (three units at
\* base price 100, reserve ratio 800: 300), and the stored base price is
\* still 100.
C19_Witness ==
    /\ call.op = "calculate_price"
    /\ ret = Ok(N(300))
    /\ Len(events) = 1
    /\ CalledToken.bonding_curve =
           [enabled |-> TRUE, curve_type |-> 2, base_price |-> N(100),
            slope |-> N(1), reserve_ratio |-> 800]
    /\ token_factory["factory1"].token_count = Len(tokens)

\* The ids of the tokens, in creation order.
TokenIds(accounts) == [i \in 1..Len(accounts) |-> accounts[i].token_id]

\* C20.  Token ids are unique and dense: the k-th successful create_token
\* (k = 0, 1, 2, ...) stores token_id = k and leaves token_count = k + 1, no
\* two tokens share a token_id, an initialized factory's token_count is the
\* number of tokens created, and no other operation changes a token_count or
\* a token_id.
C20_TokenIdsUniqueDense ==
    [][/\ \A i, j \in 1..Len(tokens') :
              i # j => tokens'[i].token_id # tokens'[j].token_id
       /\ (call'.op = "create_token" /\ ret'.ok) =>
              /\ Len(tokens') = Len(tokens) + 1
              /\ tokens'[Len(tokens')].token_id = Len(tokens)
              /\ token_factory'[call'.factory].token_count = Len(tokens) + 1
       /\ ~(call'.op = "create_token" /\ ret'.ok) =>
              /\ TokenIds(tokens') = TokenIds(tokens)
              /\ \A f \in Factories :
                     token_factory'[f].token_count = token_factory[f].token_count]_vars

\* Within one TokenFactory account the counter is dense: a successful
\* create_token stores the account's token_count as the token_id and adds one
\* to it, and nothing else changes a token_count or a token_id.
TokenIdsDensePerFactory ==
    [][/\ (call'.op = "create_token" /\ ret'.ok) =>
              /\ Len(tokens') = Len(tokens) + 1
              /\ SubSeq(TokenIds(tokens'), 1, Len(tokens)) = TokenIds(tokens)
              /\ tokens'[Len(tokens')].token_id =
                     token_factory[call'.factory].token_count
              /\ \A f \in Factories :
                     token_factory'[f].token_count =
                         token_factory[f].token_count
                             + (IF f = call'.factory THEN 1 ELSE 0)
       /\ ~(call'.op = "create_token" /\ ret'.ok) =>
              /\ TokenIds(tokens') = TokenIds(tokens)
              /\ \A f \in Factories :
                     token_factory'[f].token_count = token_factory[f].token_count]_vars

\* The message bodies that are a complete body of the tag's payload followed
\* by one or more bytes.
Overlong(tag) == {b \o x : b \in Encodings(tag), x \in ExtraBytes}

\* The parse_*_message of a tag rejects every complete body of that tag's
\* payload followed by more bytes, as it rejects one cut short.
TrailingBytesRejectedByParse ==
    \A tag \in {1, 2, 3} :
        /\ \A body \in Overlong(tag) :
               ParseFor(tag, body) = Err("InvalidInstructionData")
        /\ \A body \in Truncated(tag) :
               ParseFor(tag, body) = Err("InvalidInstructionData")
        /\ \A body \in Encodings(tag) : ParseFor(tag, body).ok

\* C21.  A complete body of the tag's payload followed by one or more bytes is
\* rejected by the tag's parse_*_message, and so by process_message, which
\* then emits nothing; as a body cut short is.
C21_TrailingBytesRejected ==
    /\ TrailingBytesRejectedByParse
    /\ (Dispatched /\ call.payload[1] \in {1, 2, 3}
          /\ Tail(call.payload) \in
                 Overlong(call.payload[1]) \cup Truncated(call.payload[1])) =>
           /\ ~ret.ok
           /\ events = <<>>

====
